---------------------------- MODULE Spec2Model ----------------------------
(***************************************************************************)
(* A model of two parts of go-eth2-client's api package:                   *)
(*                                                                         *)
(*   - api.VersionedBlockRequest (api/versionedblockrequest.go): a version *)
(*     tag and one payload slot per supported fork, with accessors that    *)
(*     dispatch on the tag and walk the slot down to the requested field;  *)
(*   - electra.BlockContents' YAML codec                                   *)
(*     (api/v1/electra/blockcontents_yaml.go): MarshalYAML and             *)
(*     UnmarshalYAML, the latter going through the JSON decoder.           *)
(*                                                                         *)
(* Go pointers and slices are records with a `nil` field, so that an       *)
(* absent reference, a nil slice and an empty slice stay distinct values.  *)
(***************************************************************************)
EXTENDS Integers, Sequences, FiniteSets, TLC

VARIABLES
    req,      \* the VersionedBlockRequest under test
    call,     \* the last accessor call on req: [op, arg, val, err]
    contents, \* the BlockContents handed to MarshalYAML
    enc,      \* the last MarshalYAML call: [done, out, err]
    dec       \* the last UnmarshalYAML call: [done, input, stages, res, err]

vars == <<req, call, contents, enc, dec>>

---------------------------------------------------------------------------
(* Bounds of the model.                                                    *)

\* Longest attestation / slashing collection of a block body.
MaxLen == 2
\* Longest KZG proof sequence and longest blob sequence of a BlockContents.
MaxBlobs == 2

---------------------------------------------------------------------------
(* Go values.                                                              *)

\* A nil pointer.
NIL == [nil |-> TRUE]

\* A nil slice and a non-nil slice holding the elements s.
NilSlice == [nil |-> TRUE, elems |-> <<>>]
MakeSlice(s) == [nil |-> FALSE, elems |-> s]

\* The error values of the api package, and the nil error.
NoErr == "nil"
ErrDataMissing == "ErrDataMissing"
ErrUnsupportedVersion == "ErrUnsupportedVersion"
\* Whatever error the SSZ hasher reports.
ErrHashTreeRoot == "ErrHashTreeRoot"

\* spec.DataVersion, as far as the envelope is concerned.
DataVersionUnknown == "unknown"
DataVersionPhase0 == "phase0"
DataVersionAltair == "altair"
DataVersionBellatrix == "bellatrix"
DataVersionCapella == "capella"
DataVersionDeneb == "deneb"
DataVersionElectra == "electra"

DataVersions ==
    { DataVersionUnknown, DataVersionPhase0, DataVersionAltair,
      DataVersionBellatrix, DataVersionCapella, DataVersionDeneb,
      DataVersionElectra }

\* The payload slots of VersionedBlockRequest.
SlotNames == { "Bellatrix", "Capella", "Deneb", "Electra" }

\* phase0.Slot, phase0.Root and phase0.Hash32 values and their zero values.
\* A root or hash is a one-element tuple, a computed tree root a tagged pair.
ZeroSlot == 0
Root32(k) == <<k>>
ZeroRoot == Root32(0)
ZeroHash == Root32(0)

\* No accessor has been called yet.
NoCall == [op |-> "none", arg |-> FALSE, val |-> ZeroSlot, err |-> NoErr]

\* The record of a call of accessor op, with the hasher's behaviour arg,
\* that returned r.
Called(op, arg, r) == [op |-> op, arg |-> arg, val |-> r.val, err |-> r.err]

\* A (value, error) pair returned by an accessor.
Ret(val, err) == [val |-> val, err |-> err]

\* HashTreeRoot of a message or a body: the SSZ hasher either fails with its
\* own error or yields a root determined by the hashed structure.
HashTreeRoot(x, fails) ==
    IF fails THEN Ret(ZeroRoot, ErrHashTreeRoot)
    ELSE Ret(<<"root", x>>, NoErr)

\* (*SignedBeaconBlock).String(): the YAML text of the block, never empty.
PayloadString(p) == "{message: " \o ToString(p.Message) \o "}"

\* spec.VersionedAttestation / spec.VersionedAttesterSlashing as built by the
\* composite literals of Attestations and AttesterSlashings: the tag and the
\* named slot are set, every other slot keeps its zero value.
VersionedAttestation(version, slot, attestation) ==
    [ Version   |-> version,
      Bellatrix |-> IF slot = "Bellatrix" THEN attestation ELSE NIL,
      Capella   |-> IF slot = "Capella" THEN attestation ELSE NIL,
      Deneb     |-> IF slot = "Deneb" THEN attestation ELSE NIL,
      Electra   |-> IF slot = "Electra" THEN attestation ELSE NIL ]

VersionedAttesterSlashing(version, slot, attesterSlashing) ==
    [ Version   |-> version,
      Bellatrix |-> IF slot = "Bellatrix" THEN attesterSlashing ELSE NIL,
      Capella   |-> IF slot = "Capella" THEN attesterSlashing ELSE NIL,
      Deneb     |-> IF slot = "Deneb" THEN attesterSlashing ELSE NIL,
      Electra   |-> IF slot = "Electra" THEN attesterSlashing ELSE NIL ]

---------------------------------------------------------------------------
(* The payloads an envelope is built from.                                 *)

\* Identifiers of the elements of a body's collections, and the values the
\* scalar fields of a message are drawn from.
Items == { 1, 2 }
Vals == { 0, 1 }

RECURSIVE SeqsUpTo(_, _)
SeqsUpTo(S, n) ==
    IF n = 0 THEN { <<>> }
    ELSE LET shorter == SeqsUpTo(S, n - 1)
         IN  shorter \cup { Append(s, x) : s \in { t \in shorter : Len(t) = n - 1 }, x \in S }

Lists == SeqsUpTo(Items, MaxLen)

\* An element of a collection: a non-nil pointer to an object of that kind.
Element(kind, k) == [nil |-> FALSE, kind |-> kind, id |-> k]

\* The collection of the given kind holding the elements named by l.
Collection(kind, l) == MakeSlice([i \in 1..Len(l) |-> Element(kind, l[i])])

Reverse(l) == [i \in 1..Len(l) |-> l[Len(l) + 1 - i]]

\* A block body.  One list names the elements of all three collections (the
\* attester slashings in reverse order); x seeds the scalar values.
Body(x, l, withSync, withExec) ==
    [ nil               |-> FALSE,
      Attestations      |-> Collection("attestation", l),
      AttesterSlashings |-> Collection("attesterSlashing", Reverse(l)),
      ProposerSlashings |-> Collection("proposerSlashing", l),
      SyncAggregate     |-> IF withSync
                            THEN [nil |-> FALSE, SyncCommitteeBits |-> x + 4]
                            ELSE NIL,
      ExecutionPayload  |-> IF withExec
                            THEN [nil |-> FALSE, BlockHash |-> Root32(x + 3)]
                            ELSE NIL ]

\* A body whose three collections are nil slices.
NilBody(x, withSync, withExec) ==
    [ Body(x, <<>>, withSync, withExec) EXCEPT
        !.Attestations = NilSlice,
        !.AttesterSlashings = NilSlice,
        !.ProposerSlashings = NilSlice ]

\* The bodies, absent body included, a message seeded with x may carry.
BodiesOf(x) ==
    { NIL }
    \cup { Body(x, l, g, e) : l \in Lists, g \in BOOLEAN, e \in BOOLEAN }
    \cup { NilBody(x, g, e) : g \in BOOLEAN, e \in BOOLEAN }

Message(x, body) ==
    [ nil        |-> FALSE,
      Slot       |-> x,
      ParentRoot |-> Root32(x + 1),
      StateRoot  |-> Root32(x + 2),
      Body       |-> body ]

Messages ==
    { NIL } \cup UNION { { Message(x, body) : body \in BodiesOf(x) } : x \in Vals }

SignedBeaconBlock(message) == [nil |-> FALSE, Message |-> message]

\* Every payload a slot may hold, absent and partial ones included.
Payloads == { NIL } \cup { SignedBeaconBlock(m) : m \in Messages }

\* What the slots beside the one under test hold: nothing, or a complete
\* payload.
OtherPayloads ==
    { NIL } \cup { SignedBeaconBlock(Message(x, Body(x, <<1>>, TRUE, TRUE))) : x \in Vals }

\* The envelope whose slot `primary` holds p and whose other slots hold o.
Envelope(version, primary, p, o) ==
    [ Version   |-> version,
      Bellatrix |-> IF primary = "Bellatrix" THEN p ELSE o,
      Capella   |-> IF primary = "Capella" THEN p ELSE o,
      Deneb     |-> IF primary = "Deneb" THEN p ELSE o,
      Electra   |-> IF primary = "Electra" THEN p ELSE o ]

Envelopes ==
    { Envelope(t, s, p, o) : t \in DataVersions, s \in SlotNames,
                             p \in Payloads, o \in OtherPayloads }

---------------------------------------------------------------------------
(* The accessors of VersionedBlockRequest.                                 *)

\* Slot as it would be with the body check of the collection accessors
\* pasted in.
SlotRequiringBody(v) ==
  CASE v.Version = DataVersionBellatrix ->
         IF v.Bellatrix.nil \/ v.Bellatrix.Message.nil \/ v.Bellatrix.Message.Body.nil
         THEN Ret(ZeroSlot, ErrDataMissing)
         ELSE Ret(v.Bellatrix.Message.Slot, NoErr)
    [] v.Version = DataVersionCapella ->
         IF v.Capella.nil \/ v.Capella.Message.nil \/ v.Capella.Message.Body.nil
         THEN Ret(ZeroSlot, ErrDataMissing)
         ELSE Ret(v.Capella.Message.Slot, NoErr)
    [] v.Version = DataVersionDeneb ->
         IF v.Deneb.nil \/ v.Deneb.Message.nil \/ v.Deneb.Message.Body.nil
         THEN Ret(ZeroSlot, ErrDataMissing)
         ELSE Ret(v.Deneb.Message.Slot, NoErr)
    [] v.Version = DataVersionElectra ->
         IF v.Electra.nil \/ v.Electra.Message.nil \/ v.Electra.Message.Body.nil
         THEN Ret(ZeroSlot, ErrDataMissing)
         ELSE Ret(v.Electra.Message.Slot, NoErr)
    [] OTHER -> Ret(ZeroSlot, ErrUnsupportedVersion)

\* Slot as it would be if the Deneb branch returned the Capella slot's
\* field.
SlotReadingCapellaForDeneb(v) ==
  CASE v.Version = DataVersionBellatrix ->
         IF v.Bellatrix.nil \/ v.Bellatrix.Message.nil
         THEN Ret(ZeroSlot, ErrDataMissing)
         ELSE Ret(v.Bellatrix.Message.Slot, NoErr)
    [] v.Version = DataVersionCapella ->
         IF v.Capella.nil \/ v.Capella.Message.nil
         THEN Ret(ZeroSlot, ErrDataMissing)
         ELSE Ret(v.Capella.Message.Slot, NoErr)
    [] v.Version = DataVersionDeneb ->
         IF v.Deneb.nil \/ v.Deneb.Message.nil
         THEN Ret(ZeroSlot, ErrDataMissing)
         ELSE Ret(IF v.Capella.nil \/ v.Capella.Message.nil THEN ZeroSlot
                 ELSE v.Capella.Message.Slot, NoErr)
    [] v.Version = DataVersionElectra ->
         IF v.Electra.nil \/ v.Electra.Message.nil
         THEN Ret(ZeroSlot, ErrDataMissing)
         ELSE Ret(v.Electra.Message.Slot, NoErr)
    [] OTHER -> Ret(ZeroSlot, ErrUnsupportedVersion)

\* Slot returns the slot of the signed beacon block.
Slot(v) ==
  CASE v.Version = DataVersionBellatrix ->
         IF v.Bellatrix.nil \/ v.Bellatrix.Message.nil
         THEN Ret(ZeroSlot, ErrDataMissing)
         ELSE Ret(v.Bellatrix.Message.Slot, NoErr)
    [] v.Version = DataVersionCapella ->
         IF v.Capella.nil \/ v.Capella.Message.nil
         THEN Ret(ZeroSlot, ErrDataMissing)
         ELSE Ret(v.Capella.Message.Slot, NoErr)
    [] v.Version = DataVersionDeneb ->
         IF v.Deneb.nil \/ v.Deneb.Message.nil
         THEN Ret(ZeroSlot, ErrDataMissing)
         ELSE Ret(v.Deneb.Message.Slot, NoErr)
    [] v.Version = DataVersionElectra ->
         IF v.Electra.nil \/ v.Electra.Message.nil
         THEN Ret(ZeroSlot, ErrDataMissing)
         ELSE Ret(v.Electra.Message.Slot, NoErr)
    [] OTHER -> Ret(ZeroSlot, ErrUnsupportedVersion)

\* ExecutionBlockHash as it would be without the check of the execution
\* payload, reading a zero hash where there is none.
ExecutionBlockHashSkippingPayloadCheck(v) ==
  CASE v.Version = DataVersionBellatrix ->
         IF v.Bellatrix.nil \/ v.Bellatrix.Message.nil \/ v.Bellatrix.Message.Body.nil
         THEN Ret(ZeroHash, ErrDataMissing)
         ELSE Ret(IF v.Bellatrix.Message.Body.ExecutionPayload.nil THEN ZeroHash
                 ELSE v.Bellatrix.Message.Body.ExecutionPayload.BlockHash, NoErr)
    [] v.Version = DataVersionCapella ->
         IF v.Capella.nil \/ v.Capella.Message.nil \/ v.Capella.Message.Body.nil
         THEN Ret(ZeroHash, ErrDataMissing)
         ELSE Ret(IF v.Capella.Message.Body.ExecutionPayload.nil THEN ZeroHash
                 ELSE v.Capella.Message.Body.ExecutionPayload.BlockHash, NoErr)
    [] v.Version = DataVersionDeneb ->
         IF v.Deneb.nil \/ v.Deneb.Message.nil \/ v.Deneb.Message.Body.nil
         THEN Ret(ZeroHash, ErrDataMissing)
         ELSE Ret(IF v.Deneb.Message.Body.ExecutionPayload.nil THEN ZeroHash
                 ELSE v.Deneb.Message.Body.ExecutionPayload.BlockHash, NoErr)
    [] v.Version = DataVersionElectra ->
         IF v.Electra.nil \/ v.Electra.Message.nil \/ v.Electra.Message.Body.nil
         THEN Ret(ZeroHash, ErrDataMissing)
         ELSE Ret(IF v.Electra.Message.Body.ExecutionPayload.nil THEN ZeroHash
                 ELSE v.Electra.Message.Body.ExecutionPayload.BlockHash, NoErr)
    [] OTHER -> Ret(ZeroHash, ErrUnsupportedVersion)

\* ExecutionBlockHash returns the block hash of the beacon block.
ExecutionBlockHash(v) ==
  CASE v.Version = DataVersionBellatrix ->
         IF v.Bellatrix.nil \/ v.Bellatrix.Message.nil \/ v.Bellatrix.Message.Body.nil \/ v.Bellatrix.Message.Body.ExecutionPayload.nil
         THEN Ret(ZeroHash, ErrDataMissing)
         ELSE Ret(v.Bellatrix.Message.Body.ExecutionPayload.BlockHash, NoErr)
    [] v.Version = DataVersionCapella ->
         IF v.Capella.nil \/ v.Capella.Message.nil \/ v.Capella.Message.Body.nil \/ v.Capella.Message.Body.ExecutionPayload.nil
         THEN Ret(ZeroHash, ErrDataMissing)
         ELSE Ret(v.Capella.Message.Body.ExecutionPayload.BlockHash, NoErr)
    [] v.Version = DataVersionDeneb ->
         IF v.Deneb.nil \/ v.Deneb.Message.nil \/ v.Deneb.Message.Body.nil \/ v.Deneb.Message.Body.ExecutionPayload.nil
         THEN Ret(ZeroHash, ErrDataMissing)
         ELSE Ret(v.Deneb.Message.Body.ExecutionPayload.BlockHash, NoErr)
    [] v.Version = DataVersionElectra ->
         IF v.Electra.nil \/ v.Electra.Message.nil \/ v.Electra.Message.Body.nil \/ v.Electra.Message.Body.ExecutionPayload.nil
         THEN Ret(ZeroHash, ErrDataMissing)
         ELSE Ret(v.Electra.Message.Body.ExecutionPayload.BlockHash, NoErr)
    [] OTHER -> Ret(ZeroHash, ErrUnsupportedVersion)

\* Attestations returns the attestations of the beacon block, each wrapped
\* in a VersionedAttestation of the envelope's version.
Attestations(v) ==
  CASE v.Version = DataVersionBellatrix ->
         IF v.Bellatrix.nil \/ v.Bellatrix.Message.nil \/ v.Bellatrix.Message.Body.nil
         THEN Ret(NilSlice, ErrDataMissing)
         ELSE Ret(MakeSlice([i \in 1..Len(v.Bellatrix.Message.Body.Attestations.elems) |->
                  VersionedAttestation(DataVersionBellatrix, "Bellatrix", v.Bellatrix.Message.Body.Attestations.elems[i])]), NoErr)
    [] v.Version = DataVersionCapella ->
         IF v.Capella.nil \/ v.Capella.Message.nil \/ v.Capella.Message.Body.nil
         THEN Ret(NilSlice, ErrDataMissing)
         ELSE Ret(MakeSlice([i \in 1..Len(v.Capella.Message.Body.Attestations.elems) |->
                  VersionedAttestation(DataVersionCapella, "Capella", v.Capella.Message.Body.Attestations.elems[i])]), NoErr)
    [] v.Version = DataVersionDeneb ->
         IF v.Deneb.nil \/ v.Deneb.Message.nil \/ v.Deneb.Message.Body.nil
         THEN Ret(NilSlice, ErrDataMissing)
         ELSE Ret(MakeSlice([i \in 1..Len(v.Deneb.Message.Body.Attestations.elems) |->
                  VersionedAttestation(DataVersionDeneb, "Deneb", v.Deneb.Message.Body.Attestations.elems[i])]), NoErr)
    [] v.Version = DataVersionElectra ->
         IF v.Electra.nil \/ v.Electra.Message.nil \/ v.Electra.Message.Body.nil
         THEN Ret(NilSlice, ErrDataMissing)
         ELSE Ret(MakeSlice([i \in 1..Len(v.Electra.Message.Body.Attestations.elems) |->
                  VersionedAttestation(DataVersionElectra, "Electra", v.Electra.Message.Body.Attestations.elems[i])]), NoErr)
    [] OTHER -> Ret(NilSlice, ErrUnsupportedVersion)

\* Root returns the root of the beacon block.
Root(v, hashFails) ==
  CASE v.Version = DataVersionBellatrix ->
         IF v.Bellatrix.nil \/ v.Bellatrix.Message.nil
         THEN Ret(ZeroRoot, ErrDataMissing)
         ELSE HashTreeRoot(v.Bellatrix.Message, hashFails)
    [] v.Version = DataVersionCapella ->
         IF v.Capella.nil \/ v.Capella.Message.nil
         THEN Ret(ZeroRoot, ErrDataMissing)
         ELSE HashTreeRoot(v.Capella.Message, hashFails)
    [] v.Version = DataVersionDeneb ->
         IF v.Deneb.nil \/ v.Deneb.Message.nil
         THEN Ret(ZeroRoot, ErrDataMissing)
         ELSE HashTreeRoot(v.Deneb.Message, hashFails)
    [] v.Version = DataVersionElectra ->
         IF v.Electra.nil \/ v.Electra.Message.nil
         THEN Ret(ZeroRoot, ErrDataMissing)
         ELSE HashTreeRoot(v.Electra.Message, hashFails)
    [] OTHER -> Ret(ZeroRoot, ErrUnsupportedVersion)

\* BodyRoot returns the body root of the beacon block.
BodyRoot(v, hashFails) ==
  CASE v.Version = DataVersionBellatrix ->
         IF v.Bellatrix.nil \/ v.Bellatrix.Message.nil \/ v.Bellatrix.Message.Body.nil
         THEN Ret(ZeroRoot, ErrDataMissing)
         ELSE HashTreeRoot(v.Bellatrix.Message.Body, hashFails)
    [] v.Version = DataVersionCapella ->
         IF v.Capella.nil \/ v.Capella.Message.nil \/ v.Capella.Message.Body.nil
         THEN Ret(ZeroRoot, ErrDataMissing)
         ELSE HashTreeRoot(v.Capella.Message.Body, hashFails)
    [] v.Version = DataVersionDeneb ->
         IF v.Deneb.nil \/ v.Deneb.Message.nil \/ v.Deneb.Message.Body.nil
         THEN Ret(ZeroRoot, ErrDataMissing)
         ELSE HashTreeRoot(v.Deneb.Message.Body, hashFails)
    [] v.Version = DataVersionElectra ->
         IF v.Electra.nil \/ v.Electra.Message.nil \/ v.Electra.Message.Body.nil
         THEN Ret(ZeroRoot, ErrDataMissing)
         ELSE HashTreeRoot(v.Electra.Message.Body, hashFails)
    [] OTHER -> Ret(ZeroRoot, ErrUnsupportedVersion)

\* ParentRoot returns the parent root of the beacon block.
ParentRoot(v) ==
  CASE v.Version = DataVersionBellatrix ->
         IF v.Bellatrix.nil \/ v.Bellatrix.Message.nil
         THEN Ret(ZeroRoot, ErrDataMissing)
         ELSE Ret(v.Bellatrix.Message.ParentRoot, NoErr)
    [] v.Version = DataVersionCapella ->
         IF v.Capella.nil \/ v.Capella.Message.nil
         THEN Ret(ZeroRoot, ErrDataMissing)
         ELSE Ret(v.Capella.Message.ParentRoot, NoErr)
    [] v.Version = DataVersionDeneb ->
         IF v.Deneb.nil \/ v.Deneb.Message.nil
         THEN Ret(ZeroRoot, ErrDataMissing)
         ELSE Ret(v.Deneb.Message.ParentRoot, NoErr)
    [] v.Version = DataVersionElectra ->
         IF v.Electra.nil \/ v.Electra.Message.nil
         THEN Ret(ZeroRoot, ErrDataMissing)
         ELSE Ret(v.Electra.Message.ParentRoot, NoErr)
    [] OTHER -> Ret(ZeroRoot, ErrUnsupportedVersion)

\* StateRoot as it would be if copied from ParentRoot without renaming the
\* field.
StateRootReturningParentRoot(v) ==
  CASE v.Version = DataVersionBellatrix ->
         IF v.Bellatrix.nil \/ v.Bellatrix.Message.nil
         THEN Ret(ZeroRoot, ErrDataMissing)
         ELSE Ret(v.Bellatrix.Message.ParentRoot, NoErr)
    [] v.Version = DataVersionCapella ->
         IF v.Capella.nil \/ v.Capella.Message.nil
         THEN Ret(ZeroRoot, ErrDataMissing)
         ELSE Ret(v.Capella.Message.ParentRoot, NoErr)
    [] v.Version = DataVersionDeneb ->
         IF v.Deneb.nil \/ v.Deneb.Message.nil
         THEN Ret(ZeroRoot, ErrDataMissing)
         ELSE Ret(v.Deneb.Message.ParentRoot, NoErr)
    [] v.Version = DataVersionElectra ->
         IF v.Electra.nil \/ v.Electra.Message.nil
         THEN Ret(ZeroRoot, ErrDataMissing)
         ELSE Ret(v.Electra.Message.ParentRoot, NoErr)
    [] OTHER -> Ret(ZeroRoot, ErrUnsupportedVersion)

\* StateRoot returns the state root of the beacon block.
StateRoot(v) ==
  CASE v.Version = DataVersionBellatrix ->
         IF v.Bellatrix.nil \/ v.Bellatrix.Message.nil
         THEN Ret(ZeroRoot, ErrDataMissing)
         ELSE Ret(v.Bellatrix.Message.StateRoot, NoErr)
    [] v.Version = DataVersionCapella ->
         IF v.Capella.nil \/ v.Capella.Message.nil
         THEN Ret(ZeroRoot, ErrDataMissing)
         ELSE Ret(v.Capella.Message.StateRoot, NoErr)
    [] v.Version = DataVersionDeneb ->
         IF v.Deneb.nil \/ v.Deneb.Message.nil
         THEN Ret(ZeroRoot, ErrDataMissing)
         ELSE Ret(v.Deneb.Message.StateRoot, NoErr)
    [] v.Version = DataVersionElectra ->
         IF v.Electra.nil \/ v.Electra.Message.nil
         THEN Ret(ZeroRoot, ErrDataMissing)
         ELSE Ret(v.Electra.Message.StateRoot, NoErr)
    [] OTHER -> Ret(ZeroRoot, ErrUnsupportedVersion)

\* AttesterSlashings as it would be if the Capella branch kept the Bellatrix
\* literal it was copied from.
AttesterSlashingsTaggedBellatrix(v) ==
  CASE v.Version = DataVersionBellatrix ->
         IF v.Bellatrix.nil \/ v.Bellatrix.Message.nil \/ v.Bellatrix.Message.Body.nil
         THEN Ret(NilSlice, ErrDataMissing)
         ELSE Ret(MakeSlice([i \in 1..Len(v.Bellatrix.Message.Body.AttesterSlashings.elems) |->
                  VersionedAttesterSlashing(DataVersionBellatrix, "Bellatrix", v.Bellatrix.Message.Body.AttesterSlashings.elems[i])]), NoErr)
    [] v.Version = DataVersionCapella ->
         IF v.Capella.nil \/ v.Capella.Message.nil \/ v.Capella.Message.Body.nil
         THEN Ret(NilSlice, ErrDataMissing)
         ELSE Ret(MakeSlice([i \in 1..Len(v.Capella.Message.Body.AttesterSlashings.elems) |->
                  VersionedAttesterSlashing(DataVersionBellatrix, "Bellatrix", v.Capella.Message.Body.AttesterSlashings.elems[i])]), NoErr)
    [] v.Version = DataVersionDeneb ->
         IF v.Deneb.nil \/ v.Deneb.Message.nil \/ v.Deneb.Message.Body.nil
         THEN Ret(NilSlice, ErrDataMissing)
         ELSE Ret(MakeSlice([i \in 1..Len(v.Deneb.Message.Body.AttesterSlashings.elems) |->
                  VersionedAttesterSlashing(DataVersionDeneb, "Deneb", v.Deneb.Message.Body.AttesterSlashings.elems[i])]), NoErr)
    [] v.Version = DataVersionElectra ->
         IF v.Electra.nil \/ v.Electra.Message.nil \/ v.Electra.Message.Body.nil
         THEN Ret(NilSlice, ErrDataMissing)
         ELSE Ret(MakeSlice([i \in 1..Len(v.Electra.Message.Body.AttesterSlashings.elems) |->
                  VersionedAttesterSlashing(DataVersionElectra, "Electra", v.Electra.Message.Body.AttesterSlashings.elems[i])]), NoErr)
    [] OTHER -> Ret(NilSlice, ErrUnsupportedVersion)

\* AttesterSlashings returns the attester slashings of the beacon block, each
\* wrapped in a VersionedAttesterSlashing of the envelope's version.
AttesterSlashings(v) ==
  CASE v.Version = DataVersionBellatrix ->
         IF v.Bellatrix.nil \/ v.Bellatrix.Message.nil \/ v.Bellatrix.Message.Body.nil
         THEN Ret(NilSlice, ErrDataMissing)
         ELSE Ret(MakeSlice([i \in 1..Len(v.Bellatrix.Message.Body.AttesterSlashings.elems) |->
                  VersionedAttesterSlashing(DataVersionBellatrix, "Bellatrix", v.Bellatrix.Message.Body.AttesterSlashings.elems[i])]), NoErr)
    [] v.Version = DataVersionCapella ->
         IF v.Capella.nil \/ v.Capella.Message.nil \/ v.Capella.Message.Body.nil
         THEN Ret(NilSlice, ErrDataMissing)
         ELSE Ret(MakeSlice([i \in 1..Len(v.Capella.Message.Body.AttesterSlashings.elems) |->
                  VersionedAttesterSlashing(DataVersionCapella, "Capella", v.Capella.Message.Body.AttesterSlashings.elems[i])]), NoErr)
    [] v.Version = DataVersionDeneb ->
         IF v.Deneb.nil \/ v.Deneb.Message.nil \/ v.Deneb.Message.Body.nil
         THEN Ret(NilSlice, ErrDataMissing)
         ELSE Ret(MakeSlice([i \in 1..Len(v.Deneb.Message.Body.AttesterSlashings.elems) |->
                  VersionedAttesterSlashing(DataVersionDeneb, "Deneb", v.Deneb.Message.Body.AttesterSlashings.elems[i])]), NoErr)
    [] v.Version = DataVersionElectra ->
         IF v.Electra.nil \/ v.Electra.Message.nil \/ v.Electra.Message.Body.nil
         THEN Ret(NilSlice, ErrDataMissing)
         ELSE Ret(MakeSlice([i \in 1..Len(v.Electra.Message.Body.AttesterSlashings.elems) |->
                  VersionedAttesterSlashing(DataVersionElectra, "Electra", v.Electra.Message.Body.AttesterSlashings.elems[i])]), NoErr)
    [] OTHER -> Ret(NilSlice, ErrUnsupportedVersion)

\* ProposerSlashings returns the proposer slashings of the beacon block.
ProposerSlashings(v) ==
  CASE v.Version = DataVersionBellatrix ->
         IF v.Bellatrix.nil \/ v.Bellatrix.Message.nil \/ v.Bellatrix.Message.Body.nil
         THEN Ret(NilSlice, ErrDataMissing)
         ELSE Ret(v.Bellatrix.Message.Body.ProposerSlashings, NoErr)
    [] v.Version = DataVersionCapella ->
         IF v.Capella.nil \/ v.Capella.Message.nil \/ v.Capella.Message.Body.nil
         THEN Ret(NilSlice, ErrDataMissing)
         ELSE Ret(v.Capella.Message.Body.ProposerSlashings, NoErr)
    [] v.Version = DataVersionDeneb ->
         IF v.Deneb.nil \/ v.Deneb.Message.nil \/ v.Deneb.Message.Body.nil
         THEN Ret(NilSlice, ErrDataMissing)
         ELSE Ret(v.Deneb.Message.Body.ProposerSlashings, NoErr)
    [] v.Version = DataVersionElectra ->
         IF v.Electra.nil \/ v.Electra.Message.nil \/ v.Electra.Message.Body.nil
         THEN Ret(NilSlice, ErrDataMissing)
         ELSE Ret(v.Electra.Message.Body.ProposerSlashings, NoErr)
    [] OTHER -> Ret(NilSlice, ErrUnsupportedVersion)

\* SyncAggregate as it would be if the default branch reported missing data.
SyncAggregateDefaultingToMissing(v) ==
  CASE v.Version = DataVersionBellatrix ->
         IF v.Bellatrix.nil \/ v.Bellatrix.Message.nil \/ v.Bellatrix.Message.Body.nil
         THEN Ret(NIL, ErrDataMissing)
         ELSE Ret(v.Bellatrix.Message.Body.SyncAggregate, NoErr)
    [] v.Version = DataVersionCapella ->
         IF v.Capella.nil \/ v.Capella.Message.nil \/ v.Capella.Message.Body.nil
         THEN Ret(NIL, ErrDataMissing)
         ELSE Ret(v.Capella.Message.Body.SyncAggregate, NoErr)
    [] v.Version = DataVersionDeneb ->
         IF v.Deneb.nil \/ v.Deneb.Message.nil \/ v.Deneb.Message.Body.nil
         THEN Ret(NIL, ErrDataMissing)
         ELSE Ret(v.Deneb.Message.Body.SyncAggregate, NoErr)
    [] v.Version = DataVersionElectra ->
         IF v.Electra.nil \/ v.Electra.Message.nil \/ v.Electra.Message.Body.nil
         THEN Ret(NIL, ErrDataMissing)
         ELSE Ret(v.Electra.Message.Body.SyncAggregate, NoErr)
    [] OTHER -> Ret(NIL, ErrDataMissing)

\* SyncAggregate returns the sync aggregate of the beacon block.
SyncAggregate(v) ==
  CASE v.Version = DataVersionBellatrix ->
         IF v.Bellatrix.nil \/ v.Bellatrix.Message.nil \/ v.Bellatrix.Message.Body.nil
         THEN Ret(NIL, ErrDataMissing)
         ELSE Ret(v.Bellatrix.Message.Body.SyncAggregate, NoErr)
    [] v.Version = DataVersionCapella ->
         IF v.Capella.nil \/ v.Capella.Message.nil \/ v.Capella.Message.Body.nil
         THEN Ret(NIL, ErrDataMissing)
         ELSE Ret(v.Capella.Message.Body.SyncAggregate, NoErr)
    [] v.Version = DataVersionDeneb ->
         IF v.Deneb.nil \/ v.Deneb.Message.nil \/ v.Deneb.Message.Body.nil
         THEN Ret(NIL, ErrDataMissing)
         ELSE Ret(v.Deneb.Message.Body.SyncAggregate, NoErr)
    [] v.Version = DataVersionElectra ->
         IF v.Electra.nil \/ v.Electra.Message.nil \/ v.Electra.Message.Body.nil
         THEN Ret(NIL, ErrDataMissing)
         ELSE Ret(v.Electra.Message.Body.SyncAggregate, NoErr)
    [] OTHER -> Ret(NIL, ErrUnsupportedVersion)

\* String as it would be if an absent payload were reported like an unknown
\* version.
StringReportingAbsentAsUnsupported(v) ==
  CASE v.Version = DataVersionBellatrix ->
         IF v.Bellatrix.nil THEN "unsupported version" ELSE PayloadString(v.Bellatrix)
    [] v.Version = DataVersionCapella ->
         IF v.Capella.nil THEN "unsupported version" ELSE PayloadString(v.Capella)
    [] v.Version = DataVersionDeneb ->
         IF v.Deneb.nil THEN "unsupported version" ELSE PayloadString(v.Deneb)
    [] v.Version = DataVersionElectra ->
         IF v.Electra.nil THEN "unsupported version" ELSE PayloadString(v.Electra)
    [] OTHER -> "unsupported version"

\* String returns a string version of the structure.
String(v) ==
  CASE v.Version = DataVersionBellatrix ->
         IF v.Bellatrix.nil THEN "" ELSE PayloadString(v.Bellatrix)
    [] v.Version = DataVersionCapella ->
         IF v.Capella.nil THEN "" ELSE PayloadString(v.Capella)
    [] v.Version = DataVersionDeneb ->
         IF v.Deneb.nil THEN "" ELSE PayloadString(v.Deneb)
    [] v.Version = DataVersionElectra ->
         IF v.Electra.nil THEN "" ELSE PayloadString(v.Electra)
    [] OTHER -> "unsupported version"
---------------------------------------------------------------------------
(* BlockContents and its texts.                                            *)
(*                                                                         *)
(* A text is a sequence of bytes.  Every structural byte and every quote   *)
(* is one element; the digits of a number and the hexadecimal digits of a  *)
(* proof or blob, which hold no quote and no structural byte, are one      *)
(* element together.  White space is left out.                             *)

DQ == "\""
SQ == "'"
Structural == { "{", "}", "[", "]", ",", ":" }

\* An error is the chain of its messages, outermost first; nil is empty.
NilError == <<>>
\* errors.Wrap(err, message)
Wrap(err, message) == <<message>> \o err

\* The values a BlockContents is built from.  Of a beacon block only the slot
\* is kept, and the proofs and the blobs are sequences: a nil and an empty
\* slice of them are not told apart.
BlockSlots == { 0, 1 }
ProofIds == { 1, 2 }
BlobIds == { 1, 2 }

BeaconBlock(slot) == [nil |-> FALSE, Slot |-> slot]

\* The hexadecimal text of a KZG proof and of a blob, told apart as their
\* lengths tell them apart.
ProofText(k) == "0xa" \o ToString(k)
BlobText(k) == "0xb" \o ToString(k)
\* The decimal text of a slot.
SlotText(n) == ToString(n)

BlockContentsSet ==
    [ Block     : { NIL } \cup { BeaconBlock(n) : n \in BlockSlots },
      KZGProofs : SeqsUpTo(ProofIds, MaxBlobs),
      Blobs     : SeqsUpTo(BlobIds, MaxBlobs) ]

\* The zero value of BlockContents.
ZeroBlockContents == [Block |-> NIL, KZGProofs |-> <<>>, Blobs |-> <<>>]

\* bytes.ReplaceAll(s, old, new) for one-byte old and new.
RECURSIVE ReplaceAll(_, _, _)
ReplaceAll(s, old, new) ==
    IF s = <<>> THEN <<>>
    ELSE <<IF Head(s) = old THEN new ELSE Head(s)>> \o ReplaceAll(Tail(s), old, new)

\* bytes.Replace(s, old, new, 1)
RECURSIVE ReplaceFirst(_, _, _)
ReplaceFirst(s, old, new) ==
    IF s = <<>> THEN <<>>
    ELSE IF Head(s) = old THEN <<new>> \o Tail(s)
    ELSE <<Head(s)>> \o ReplaceFirst(Tail(s), old, new)

\* The elements of items, each between two quotes q, separated by commas.
RECURSIVE QuotedList(_, _)
QuotedList(items, q) ==
    IF items = <<>> THEN <<>>
    ELSE <<q, Head(items), q>>
         \o (IF Tail(items) = <<>> THEN <<>> ELSE <<",">>)
         \o QuotedList(Tail(items), q)

\* blockContentsYAML, the struct MarshalYAML serializes.
BlockContentsYAML(block, kzgProofs, blobs) ==
    [Block |-> block, KZGProofs |-> kzgProofs, Blobs |-> blobs]

\* yaml.MarshalWithOptions(y, yaml.Flow(true)): the flow-style text of a
\* blockContentsYAML, its strings double-quoted, or the serializer's error.
YAMLMarshalFlow(y, fails) ==
    IF fails THEN [out |-> <<>>, err |-> <<"yaml: marshal error">>]
    ELSE [ out |-> <<"{", "block", ":">>
                   \o (IF y.Block.nil THEN <<"null">>
                       ELSE <<"{", "slot", ":", SlotText(y.Block.Slot), "}">>)
                   \o <<",", "kzg_proofs", ":", "[">>
                   \o QuotedList([i \in 1..Len(y.KZGProofs) |-> ProofText(y.KZGProofs[i])], DQ)
                   \o <<"]", ",", "blobs", ":", "[">>
                   \o QuotedList([i \in 1..Len(y.Blobs) |-> BlobText(y.Blobs[i])], DQ)
                   \o <<"]", "}">>,
           err |-> NilError ]

\* MarshalYAML as it would be if only the first quote were replaced.
MarshalYAMLReplacingFirstQuote(b, fails) ==
    LET r == YAMLMarshalFlow(BlockContentsYAML(b.Block, b.KZGProofs, b.Blobs), fails)
    IN  IF r.err # NilError THEN [out |-> <<>>, err |-> r.err]
        ELSE [out |-> ReplaceFirst(r.out, DQ, SQ), err |-> NilError]

\* MarshalYAML implements yaml.Marshaler.
MarshalYAML(b, fails) ==
    LET r == YAMLMarshalFlow(BlockContentsYAML(b.Block, b.KZGProofs, b.Blobs), fails)
    IN  IF r.err # NilError THEN [out |-> <<>>, err |-> r.err]
        ELSE [out |-> ReplaceAll(r.out, DQ, SQ), err |-> NilError]

---------------------------------------------------------------------------
(* Reading a text.  YAML takes a scalar bare or between two equal quotes   *)
(* of either kind; JSON takes strings and keys between double quotes only  *)
(* and, bare, only null and numbers.                                       *)

Quotes(dialect) == IF dialect = "yaml" THEN { DQ, SQ } ELSE { DQ }

\* The nodes of a parsed text.
ScalarNode(text, quoted) == [kind |-> "scalar", text |-> text, quoted |-> quoted]
SeqNode(items) == [kind |-> "seq", items |-> items]
MapNode(keys, vals) == [kind |-> "map", keys |-> keys, vals |-> vals]
NullNode == ScalarNode("null", FALSE)

Parsed(node, rest) == [ok |-> TRUE, node |-> node, rest |-> rest]
NotParsed == [ok |-> FALSE, node |-> NullNode, rest |-> <<>>]

BareAllowed(dialect, t) ==
    dialect = "yaml" \/ t = "null" \/ t \in { SlotText(n) : n \in BlockSlots }

RECURSIVE ParseValue(_, _), ParseItems(_, _, _), ParseEntries(_, _, _, _)

\* The value at the head of toks and what follows it.
ParseValue(dialect, toks) ==
    IF toks = <<>> THEN NotParsed
    ELSE LET h == Head(toks)
             r == Tail(toks)
         IN  CASE h = "{" ->
                    IF r # <<>> /\ Head(r) = "}" THEN Parsed(MapNode(<<>>, <<>>), Tail(r))
                    ELSE ParseEntries(dialect, r, <<>>, <<>>)
               [] h = "[" ->
                    IF r # <<>> /\ Head(r) = "]" THEN Parsed(SeqNode(<<>>), Tail(r))
                    ELSE ParseItems(dialect, r, <<>>)
               [] h \in Quotes(dialect) ->
                    IF Len(r) >= 1 /\ r[1] = h
                    THEN Parsed(ScalarNode("", TRUE), Tail(r))
                    ELSE IF Len(r) >= 2 /\ r[1] \notin Structural \cup { DQ, SQ } /\ r[2] = h
                    THEN Parsed(ScalarNode(r[1], TRUE), Tail(Tail(r)))
                    ELSE NotParsed
               [] h \in Structural \cup { DQ, SQ } -> NotParsed
               [] OTHER ->
                    IF BareAllowed(dialect, h) THEN Parsed(ScalarNode(h, FALSE), r)
                    ELSE NotParsed

\* The items of a sequence after its "[" or after a comma, up to its "]".
ParseItems(dialect, toks, items) ==
    LET p == ParseValue(dialect, toks)
    IN  IF ~p.ok \/ p.rest = <<>> THEN NotParsed
        ELSE IF Head(p.rest) = "]"
        THEN Parsed(SeqNode(Append(items, p.node)), Tail(p.rest))
        ELSE IF Head(p.rest) = ","
        THEN ParseItems(dialect, Tail(p.rest), Append(items, p.node))
        ELSE NotParsed

\* The entries of a mapping after its "{" or after a comma, up to its "}".
ParseEntries(dialect, toks, keys, vals) ==
    LET k == ParseValue(dialect, toks)
    IN  IF ~k.ok \/ k.node.kind # "scalar" \/ k.rest = <<>> \/ Head(k.rest) # ":"
           \/ (dialect = "json" /\ ~k.node.quoted)
        THEN NotParsed
        ELSE LET p == ParseValue(dialect, Tail(k.rest))
             IN  IF ~p.ok \/ p.rest = <<>> THEN NotParsed
                 ELSE IF Head(p.rest) = "}"
                 THEN Parsed(MapNode(Append(keys, k.node.text), Append(vals, p.node)),
                             Tail(p.rest))
                 ELSE IF Head(p.rest) = ","
                 THEN ParseEntries(dialect, Tail(p.rest),
                                   Append(keys, k.node.text), Append(vals, p.node))
                 ELSE NotParsed

\* The value of key in a mapping node, null when the key is not there.
Lookup(node, key) ==
    IF \E i \in 1..Len(node.keys) : node.keys[i] = key
    THEN node.vals[CHOOSE i \in 1..Len(node.keys) :
                       /\ node.keys[i] = key
                       /\ \A j \in (i + 1)..Len(node.keys) : node.keys[j] # key]
    ELSE NullNode

IsNull(node) == node.kind = "scalar" /\ ~node.quoted /\ node.text = "null"

\* blockContentsJSON, the struct both decoders fill: a block and the texts
\* of the proofs and of the blobs.
BlockContentsJSON(block, kzgProofs, blobs) ==
    [Block |-> block, KZGProofs |-> kzgProofs, Blobs |-> blobs]

Decoded(val) == [ok |-> TRUE, val |-> val]
NotDecoded == [ok |-> FALSE, val |-> NIL]

\* A node into a *electra.BeaconBlock.  JSON wants the slot as a string.
DecodeBlock(dialect, node) ==
    IF IsNull(node) THEN Decoded(NIL)
    ELSE IF node.kind # "map" THEN NotDecoded
    ELSE LET s == Lookup(node, "slot")
         IN  IF /\ s.kind = "scalar"
                /\ (dialect = "json" => s.quoted)
                /\ \E n \in BlockSlots : SlotText(n) = s.text
             THEN Decoded(BeaconBlock(CHOOSE n \in BlockSlots : SlotText(n) = s.text))
             ELSE NotDecoded

\* A node into a []string.  JSON wants every element as a string.
DecodeStrings(dialect, node) ==
    IF IsNull(node) THEN Decoded(NilSlice)
    ELSE IF node.kind # "seq" THEN NotDecoded
    ELSE IF \A i \in 1..Len(node.items) :
                /\ node.items[i].kind = "scalar"
                /\ (dialect = "json" => node.items[i].quoted)
    THEN Decoded(MakeSlice([i \in 1..Len(node.items) |-> node.items[i].text]))
    ELSE NotDecoded

\* A text into a blockContentsJSON: unknown keys are skipped and a key that
\* is not there leaves its field nil.
DecodeInto(dialect, input) ==
    LET p == ParseValue(dialect, input)
    IN  IF ~p.ok \/ p.rest # <<>> \/ p.node.kind # "map" THEN NotDecoded
        ELSE LET block == DecodeBlock(dialect, Lookup(p.node, "block"))
                 proofs == DecodeStrings(dialect, Lookup(p.node, "kzg_proofs"))
                 blobs == DecodeStrings(dialect, Lookup(p.node, "blobs"))
             IN  IF block.ok /\ proofs.ok /\ blobs.ok
                 THEN Decoded(BlockContentsJSON(block.val, proofs.val, blobs.val))
                 ELSE NotDecoded

\* yaml.Unmarshal(input, &unmarshaled)
YAMLUnmarshal(input) ==
    LET d == DecodeInto("yaml", input)
    IN  IF d.ok THEN [val |-> d.val, err |-> NilError]
        ELSE [val |-> BlockContentsJSON(NIL, NilSlice, NilSlice),
              err |-> <<"yaml: cannot unmarshal">>]

\* json.Marshal(unmarshaled): a nil pointer and a nil slice are written null.
JSONMarshal(u, fails) ==
    IF fails THEN [out |-> <<>>, err |-> <<"json: error calling MarshalJSON">>]
    ELSE [ out |-> <<"{", DQ, "block", DQ, ":">>
                   \o (IF u.Block.nil THEN <<"null">>
                       ELSE <<"{", DQ, "slot", DQ, ":", DQ, SlotText(u.Block.Slot), DQ, "}">>)
                   \o <<",", DQ, "kzg_proofs", DQ, ":">>
                   \o (IF u.KZGProofs.nil THEN <<"null">>
                       ELSE <<"[">> \o QuotedList(u.KZGProofs.elems, DQ) \o <<"]">>)
                   \o <<",", DQ, "blobs", DQ, ":">>
                   \o (IF u.Blobs.nil THEN <<"null">>
                       ELSE <<"[">> \o QuotedList(u.Blobs.elems, DQ) \o <<"]">>)
                   \o <<"}">>,
           err |-> NilError ]

\* BlockContents.UnmarshalJSON: the three fields must all be there, every
\* proof must read as a proof and every blob as a blob; then the receiver b
\* takes them.
UnmarshalJSON(b, input) ==
    LET d == DecodeInto("json", input)
        failed(message) == [b |-> b, err |-> message]
    IN  IF ~d.ok THEN failed(<<"invalid JSON">>)
        ELSE IF d.val.Block.nil THEN failed(<<"block missing">>)
        ELSE IF d.val.KZGProofs.nil THEN failed(<<"kzg proofs missing">>)
        ELSE IF \E i \in 1..Len(d.val.KZGProofs.elems) :
                    \A k \in ProofIds : ProofText(k) # d.val.KZGProofs.elems[i]
        THEN failed(<<"invalid value for kzg proof">>)
        ELSE IF d.val.Blobs.nil THEN failed(<<"blobs missing">>)
        ELSE IF \E i \in 1..Len(d.val.Blobs.elems) :
                    \A k \in BlobIds : BlobText(k) # d.val.Blobs.elems[i]
        THEN failed(<<"invalid value for blob">>)
        ELSE [ b   |-> [ Block     |-> d.val.Block,
                         KZGProofs |-> [i \in 1..Len(d.val.KZGProofs.elems) |->
                                           CHOOSE k \in ProofIds :
                                               ProofText(k) = d.val.KZGProofs.elems[i]],
                         Blobs     |-> [i \in 1..Len(d.val.Blobs.elems) |->
                                           CHOOSE k \in BlobIds :
                                               BlobText(k) = d.val.Blobs.elems[i]] ],
               err |-> NilError ]

\* The stages of UnmarshalYAML.
StageYAML == "yaml.Unmarshal"
StageJSON == "json.Marshal"
StageFinal == "UnmarshalJSON"

\* UnmarshalYAML as it would be if the first stage's error were returned as
\* it came.
UnmarshalYAMLNotWrappingParseError(b, input, jsonFails) ==
    LET unmarshaled == YAMLUnmarshal(input)
        marshaled == JSONMarshal(unmarshaled.val, jsonFails)
        final == UnmarshalJSON(b, marshaled.out)
    IN  IF unmarshaled.err # NilError
        THEN [ stages |-> <<StageYAML>>, b |-> b,
               err |-> unmarshaled.err ]
        ELSE IF marshaled.err # NilError
        THEN [ stages |-> <<StageYAML, StageJSON>>, b |-> b,
               err |-> Wrap(marshaled.err, "failed to marshal JSON") ]
        ELSE [ stages |-> <<StageYAML, StageJSON, StageFinal>>, b |-> final.b,
               err |-> final.err ]

\* UnmarshalYAML as it would be if the input, not the re-encoded bytes, were
\* handed to UnmarshalJSON.
UnmarshalYAMLDecodingTheInput(b, input, jsonFails) ==
    LET unmarshaled == YAMLUnmarshal(input)
        marshaled == JSONMarshal(unmarshaled.val, jsonFails)
        final == UnmarshalJSON(b, input)
    IN  IF unmarshaled.err # NilError
        THEN [ stages |-> <<StageYAML>>, b |-> b,
               err |-> Wrap(unmarshaled.err, "failed to unmarshal YAML") ]
        ELSE IF marshaled.err # NilError
        THEN [ stages |-> <<StageYAML, StageJSON>>, b |-> b,
               err |-> Wrap(marshaled.err, "failed to marshal JSON") ]
        ELSE [ stages |-> <<StageYAML, StageJSON, StageFinal>>, b |-> final.b,
               err |-> final.err ]

\* UnmarshalYAML implements yaml.Unmarshaler.  The stages that ran are kept
\* beside the receiver and the error.
UnmarshalYAML(b, input, jsonFails) ==
    LET unmarshaled == YAMLUnmarshal(input)
        marshaled == JSONMarshal(unmarshaled.val, jsonFails)
        final == UnmarshalJSON(b, marshaled.out)
    IN  IF unmarshaled.err # NilError
        THEN [ stages |-> <<StageYAML>>, b |-> b,
               err |-> Wrap(unmarshaled.err, "failed to unmarshal YAML") ]
        ELSE IF marshaled.err # NilError
        THEN [ stages |-> <<StageYAML, StageJSON>>, b |-> b,
               err |-> Wrap(marshaled.err, "failed to marshal JSON") ]
        ELSE [ stages |-> <<StageYAML, StageJSON, StageFinal>>, b |-> final.b,
               err |-> final.err ]

---------------------------------------------------------------------------
(* The envelope's state machine: an envelope is constructed once and then  *)
(* only read; every step is one accessor call on it.                       *)

\* No MarshalYAML and no UnmarshalYAML call has been made yet.
NoEnc == [done |-> FALSE, fails |-> FALSE, out |-> <<>>, err |-> NilError]
NoDec ==
    [ done |-> FALSE, input |-> <<>>, jsonFails |-> FALSE, stages |-> <<>>,
      b |-> ZeroBlockContents, err |-> NilError ]

CodecIdle == contents = ZeroBlockContents /\ enc = NoEnc /\ dec = NoDec

Init ==
    /\ req \in Envelopes
    /\ call = NoCall
    /\ CodecIdle

CallSlot ==
    /\ call' = Called("Slot", FALSE, Slot(req))
    /\ UNCHANGED <<req, contents, enc, dec>>

CallExecutionBlockHash ==
    /\ call' = Called("ExecutionBlockHash", FALSE, ExecutionBlockHash(req))
    /\ UNCHANGED <<req, contents, enc, dec>>

CallAttestations ==
    /\ call' = Called("Attestations", FALSE, Attestations(req))
    /\ UNCHANGED <<req, contents, enc, dec>>

CallRoot ==
    /\ \E hashFails \in BOOLEAN :
          call' = Called("Root", hashFails, Root(req, hashFails))
    /\ UNCHANGED <<req, contents, enc, dec>>

CallBodyRoot ==
    /\ \E hashFails \in BOOLEAN :
          call' = Called("BodyRoot", hashFails, BodyRoot(req, hashFails))
    /\ UNCHANGED <<req, contents, enc, dec>>

CallParentRoot ==
    /\ call' = Called("ParentRoot", FALSE, ParentRoot(req))
    /\ UNCHANGED <<req, contents, enc, dec>>

CallStateRoot ==
    /\ call' = Called("StateRoot", FALSE, StateRoot(req))
    /\ UNCHANGED <<req, contents, enc, dec>>

CallAttesterSlashings ==
    /\ call' = Called("AttesterSlashings", FALSE, AttesterSlashings(req))
    /\ UNCHANGED <<req, contents, enc, dec>>

CallProposerSlashings ==
    /\ call' = Called("ProposerSlashings", FALSE, ProposerSlashings(req))
    /\ UNCHANGED <<req, contents, enc, dec>>

CallSyncAggregate ==
    /\ call' = Called("SyncAggregate", FALSE, SyncAggregate(req))
    /\ UNCHANGED <<req, contents, enc, dec>>

CallString ==
    /\ call' = Called("String", FALSE, Ret(String(req), NoErr))
    /\ UNCHANGED <<req, contents, enc, dec>>

Next ==
    \/ CallSlot
    \/ CallExecutionBlockHash
    \/ CallAttestations
    \/ CallRoot
    \/ CallBodyRoot
    \/ CallParentRoot
    \/ CallStateRoot
    \/ CallAttesterSlashings
    \/ CallProposerSlashings
    \/ CallSyncAggregate
    \/ CallString

Spec == Init /\ [][Next]_vars

---------------------------------------------------------------------------
(* The codec's state machine: a BlockContents is encoded, and texts are    *)
(* decoded into a fresh BlockContents: the encoder's output, and texts     *)
(* derived from it that the decoder may equally be handed.                 *)

\* The position of the first element of s equal to x, 0 when there is none.
IndexOf(s, x) ==
    IF \E i \in 1..Len(s) : s[i] = x
    THEN CHOOSE i \in 1..Len(s) : s[i] = x /\ \A j \in 1..(i - 1) : s[j] # x
    ELSE 0

\* text cut before the comma that precedes its "blobs" key, and closed.
WithoutBlobs(text) ==
    IF IndexOf(text, "blobs") > 2
    THEN SubSeq(text, 1, IndexOf(text, "blobs") - 2) \o <<"}">>
    ELSE text

\* The texts handed to UnmarshalYAML.  Of an encoder's output: the output as
\* it is, with double quotes, without its last byte, and without its blobs.
\* At any time: a text with a proof that is no hexadecimal text, and one with
\* a sequence where the block belongs.
Inputs(out) ==
    ( IF out = <<>> THEN { }
      ELSE { out,
             ReplaceAll(out, SQ, DQ),
             SubSeq(out, 1, Len(out) - 1),
             WithoutBlobs(out) } )
    \cup
    { <<"{", "block", ":", "{", "slot", ":", SlotText(1), "}", ",",
        "kzg_proofs", ":", "[", SQ, "zz", SQ, "]", ",", "blobs", ":", "[", "]", "}">>,
      <<"{", "block", ":", "[", "]", "}">> }

CodecInit ==
    /\ req = Envelope(DataVersionUnknown, "Bellatrix", NIL, NIL)
    /\ call = NoCall
    /\ contents \in BlockContentsSet
    /\ enc = NoEnc
    /\ dec = NoDec

CallMarshalYAML ==
    /\ \E fails \in BOOLEAN :
          LET r == MarshalYAML(contents, fails)
          IN  enc' = [done |-> TRUE, fails |-> fails, out |-> r.out, err |-> r.err]
    /\ UNCHANGED <<req, call, contents, dec>>

CallUnmarshalYAML ==
    /\ \E input \in Inputs(enc.out), jsonFails \in BOOLEAN :
          LET r == UnmarshalYAML(ZeroBlockContents, input, jsonFails)
          IN  dec' = [ done |-> TRUE, input |-> input, jsonFails |-> jsonFails,
                       stages |-> r.stages, b |-> r.b, err |-> r.err ]
    /\ UNCHANGED <<req, call, contents, enc>>

CodecNext ==
    \/ CallMarshalYAML
    \/ CallUnmarshalYAML

CodecSpec == CodecInit /\ [][CodecNext]_vars

---------------------------------------------------------------------------
(* Properties of the accessors.                                            *)

KnownVersions ==
    { DataVersionBellatrix, DataVersionCapella, DataVersionDeneb, DataVersionElectra }

\* The accessors that return an error beside their value.
ErrorAccessors ==
    { "Slot", "ExecutionBlockHash", "Attestations", "Root", "BodyRoot", "ParentRoot",
      "StateRoot", "AttesterSlashings", "ProposerSlashings", "SyncAggregate" }

\* The name of the slot that belongs to a known version.
SlotNameOf(version) ==
    CASE version = DataVersionBellatrix -> "Bellatrix"
      [] version = DataVersionCapella -> "Capella"
      [] version = DataVersionDeneb -> "Deneb"
      [] version = DataVersionElectra -> "Electra"

\* The payload in the slot of w's own version (w.Version known).
TagSlot(w) == w[SlotNameOf(w.Version)]

\* How many links of the path payload, message, body, execution payload are
\* present in p, counted from the payload until the first absent one.
LinksPresent(p) ==
    IF p.nil THEN 0
    ELSE IF p.Message.nil THEN 1
    ELSE IF p.Message.Body.nil THEN 2
    ELSE IF p.Message.Body.ExecutionPayload.nil THEN 3
    ELSE 4

\* How many of those links an accessor's path needs.
LinksRequired(op) ==
    IF op \in { "Slot", "Root", "ParentRoot", "StateRoot" } THEN 2
    ELSE IF op = "ExecutionBlockHash" THEN 4
    ELSE 3

\* The value an accessor returns beside an error.
ZeroOf(op) ==
    CASE op = "Slot" -> ZeroSlot
      [] op = "ExecutionBlockHash" -> ZeroHash
      [] op \in { "Root", "BodyRoot", "ParentRoot", "StateRoot" } -> ZeroRoot
      [] op \in { "Attestations", "AttesterSlashings", "ProposerSlashings" } -> NilSlice
      [] op = "SyncAggregate" -> NIL

\* The call record accessor op leaves on envelope w.
Outcome(op, arg, w) ==
    CASE op = "Slot" -> Called(op, arg, Slot(w))
      [] op = "ExecutionBlockHash" -> Called(op, arg, ExecutionBlockHash(w))
      [] op = "Attestations" -> Called(op, arg, Attestations(w))
      [] op = "Root" -> Called(op, arg, Root(w, arg))
      [] op = "BodyRoot" -> Called(op, arg, BodyRoot(w, arg))
      [] op = "ParentRoot" -> Called(op, arg, ParentRoot(w))
      [] op = "StateRoot" -> Called(op, arg, StateRoot(w))
      [] op = "AttesterSlashings" -> Called(op, arg, AttesterSlashings(w))
      [] op = "ProposerSlashings" -> Called(op, arg, ProposerSlashings(w))
      [] op = "SyncAggregate" -> Called(op, arg, SyncAggregate(w))
      [] op = "String" -> Called(op, arg, Ret(String(w), NoErr))

\* C1: for a known version, an error-returning accessor fails with
\* ErrDataMissing exactly when a link of its own required path (payload and
\* message; with the body for BodyRoot, the collections and SyncAggregate;
\* with the execution payload too for ExecutionBlockHash) is absent in the
\* version's slot, and then returns the zero value.
C1_DataMissingIffPathLinkAbsent ==
    (call.op \in ErrorAccessors /\ req.Version \in KnownVersions) =>
        /\ (call.err = ErrDataMissing) <=>
               (LinksPresent(TagSlot(req)) < LinksRequired(call.op))
        /\ (call.err = ErrDataMissing) => (call.val = ZeroOf(call.op))

\* Attestations() was called on a Bellatrix envelope whose message has no
\* body and reported missing data.
C1_Witness ==
    /\ req.Version = DataVersionBellatrix
    /\ LinksPresent(req.Bellatrix) = 2
    /\ call.op = "Attestations"
    /\ call.err = ErrDataMissing

\* C2: for every version outside the four known ones, every error-returning
\* accessor returns ErrUnsupportedVersion with the zero value, whatever the
\* slots hold.
C2_UnknownVersionIsUnsupported ==
    (call.op \in ErrorAccessors /\ req.Version \notin KnownVersions) =>
        /\ call.err = ErrUnsupportedVersion
        /\ call.val = ZeroOf(call.op)

\* SyncAggregate() was called on an Altair-tagged envelope all of whose slots
\* hold complete payloads.
C2_Witness ==
    /\ req.Version = DataVersionAltair
    /\ \A s \in SlotNames : LinksPresent(req[s]) = 4
    /\ call.op = "SyncAggregate"

\* Only the slot of req's version is populated, with a complete payload.
OnlyTagSlotComplete ==
    /\ req.Version \in KnownVersions
    /\ LinksPresent(TagSlot(req)) = 4
    /\ ~TagSlot(req).Message.Body.SyncAggregate.nil
    /\ \A s \in SlotNames \ { SlotNameOf(req.Version) } : req[s].nil

\* C3: on an envelope with only its version's slot populated, completely,
\* Slot, ParentRoot, StateRoot, ExecutionBlockHash, ProposerSlashings and
\* SyncAggregate succeed and return the field of that payload.
C3_ScalarAccessorsReturnTheField ==
    OnlyTagSlotComplete =>
        LET m == TagSlot(req).Message
        IN  /\ call.op = "Slot" => call.err = NoErr /\ call.val = m.Slot
            /\ call.op = "ParentRoot" => call.err = NoErr /\ call.val = m.ParentRoot
            /\ call.op = "StateRoot" => call.err = NoErr /\ call.val = m.StateRoot
            /\ call.op = "ExecutionBlockHash" =>
                   call.err = NoErr /\ call.val = m.Body.ExecutionPayload.BlockHash
            /\ call.op = "ProposerSlashings" =>
                   call.err = NoErr /\ call.val = m.Body.ProposerSlashings
            /\ call.op = "SyncAggregate" =>
                   call.err = NoErr /\ call.val = m.Body.SyncAggregate

\* StateRoot() was called on an envelope with only its Deneb slot populated.
C3_Witness ==
    /\ OnlyTagSlotComplete
    /\ req.Version = DataVersionDeneb
    /\ call.op = "StateRoot"

\* The collection of the body that a wrapping accessor reads.
SourceOf(op, body) ==
    IF op = "Attestations" THEN body.Attestations ELSE body.AttesterSlashings

\* C4: with payload, message and body present in the slot of a known version,
\* Attestations() and AttesterSlashings() return a sequence as long as the
\* body's collection whose i-th element carries the envelope's version and
\* holds the i-th source element in the slot of that version, the other
\* slots being absent.
C4_WrappingPreservesLengthAndOrder ==
    ( /\ call.op \in { "Attestations", "AttesterSlashings" }
      /\ req.Version \in KnownVersions
      /\ LinksPresent(TagSlot(req)) >= 3 ) =>
        LET src == SourceOf(call.op, TagSlot(req).Message.Body).elems
            own == SlotNameOf(req.Version)
        IN  /\ call.err = NoErr
            /\ ~call.val.nil
            /\ Len(call.val.elems) = Len(src)
            /\ \A i \in 1..Len(src) :
                  /\ call.val.elems[i].Version = req.Version
                  /\ call.val.elems[i][own] = src[i]
                  /\ \A s \in SlotNames \ { own } : call.val.elems[i][s] = NIL

\* AttesterSlashings() was called on a Capella envelope whose body holds two
\* different attester slashings.
C4_Witness ==
    /\ req.Version = DataVersionCapella
    /\ LinksPresent(req.Capella) >= 3
    /\ Len(req.Capella.Message.Body.AttesterSlashings.elems) = 2
    /\ req.Capella.Message.Body.AttesterSlashings.elems[1]
           # req.Capella.Message.Body.AttesterSlashings.elems[2]
    /\ call.op = "AttesterSlashings"

\* Payload, message and body are present in the slot of req's known version.
BodyPresent == req.Version \in KnownVersions /\ LinksPresent(TagSlot(req)) >= 3

\* C5 as stated: with payload, message and body present, an accessor whose
\* optional sub-structure is absent fails with ErrDataMissing, SyncAggregate()
\* on an absent sync aggregate like ExecutionBlockHash() on an absent
\* execution payload.
C5_AbsentSubStructureIsDataMissing ==
    BodyPresent =>
        /\ ( call.op = "ExecutionBlockHash"
             /\ TagSlot(req).Message.Body.ExecutionPayload.nil ) =>
               call.err = ErrDataMissing
        /\ ( call.op = "SyncAggregate"
             /\ TagSlot(req).Message.Body.SyncAggregate.nil ) =>
               call.err = ErrDataMissing

\* C5, amended: with payload, message and body present, ExecutionBlockHash()
\* fails with ErrDataMissing when the execution payload is absent, and never
\* returns a zero hash with a nil error for it; SyncAggregate() succeeds and
\* returns the body's sync aggregate reference as stored, the nil reference
\* when the body has none.
C5_OnlyExecutionPayloadIsChecked ==
    BodyPresent =>
        /\ ( call.op = "ExecutionBlockHash"
             /\ TagSlot(req).Message.Body.ExecutionPayload.nil ) =>
               call.err = ErrDataMissing /\ call.val = ZeroHash
        /\ call.op = "SyncAggregate" =>
               /\ call.err = NoErr
               /\ call.val = TagSlot(req).Message.Body.SyncAggregate

\* SyncAggregate() was called on a body without a sync aggregate and returned
\* the nil reference with a nil error.
C5_Witness ==
    /\ BodyPresent
    /\ TagSlot(req).Message.Body.SyncAggregate.nil
    /\ call.op = "SyncAggregate"
    /\ call.val.nil
    /\ call.err = NoErr

\* C6: String() returns "" exactly when the version is known and its slot is
\* absent, "unsupported version" exactly when the version is not known, and
\* the payload's own string form otherwise.
C6_StringOutcomes ==
    call.op = "String" =>
        /\ (call.val = "") <=> (req.Version \in KnownVersions /\ TagSlot(req).nil)
        /\ (call.val = "unsupported version") <=> (req.Version \notin KnownVersions)
        /\ (req.Version \in KnownVersions /\ ~TagSlot(req).nil) =>
               call.val = PayloadString(TagSlot(req))

\* String() was called on an Electra envelope whose Electra slot is absent
\* while another slot is populated.
C6_Witness ==
    /\ req.Version = DataVersionElectra
    /\ req.Electra.nil
    /\ ~req.Bellatrix.nil
    /\ call.op = "String"
    /\ call.val = ""

\* The envelopes that agree with w on the version and, when the version is
\* known, on the contents of the version's slot.
SameTagAndTagSlot(w) ==
    LET own == IF w.Version \in KnownVersions THEN { TagSlot(w) } ELSE { }
    IN  { u \in { [ Version   |-> w.Version,
                    Bellatrix |-> f["Bellatrix"],
                    Capella   |-> f["Capella"],
                    Deneb     |-> f["Deneb"],
                    Electra   |-> f["Electra"] ] :
                  f \in [SlotNames -> OtherPayloads \cup own] } :
              w.Version \in KnownVersions => TagSlot(u) = TagSlot(w) }

\* C10: the result of every accessor, String included, depends only on the
\* version and on the slot of that version: the call returns what it would
\* return on any envelope with the same version and the same contents in
\* that slot, whatever the other slots hold.
C10_OtherSlotsAreIgnored ==
    call.op # "none" =>
        \A u \in SameTagAndTagSlot(req) : Outcome(call.op, call.arg, u) = call

\* Slot() succeeded on a Deneb envelope whose four slots are all populated.
C10_Witness ==
    /\ req.Version = DataVersionDeneb
    /\ \A s \in SlotNames : ~req[s].nil
    /\ req.Capella # req.Deneb
    /\ call.op = "Slot"
    /\ call.err = NoErr

---------------------------------------------------------------------------
(* Properties of the codec.                                                *)

\* What each stage of UnmarshalYAML yields on the decoded input: the parsed
\* struct, its JSON text, and the outcome of the final UnmarshalJSON.
StageOutcomes ==
    LET unmarshaled == YAMLUnmarshal(dec.input)
        marshaled == JSONMarshal(unmarshaled.val, dec.jsonFails)
    IN  [ yaml  |-> unmarshaled.err,
          json  |-> marshaled.err,
          final |-> UnmarshalJSON(ZeroBlockContents, marshaled.out).err ]

\* err is cause wrapped once, with the given label.
Labelled(err, label, cause) == err = <<label>> \o cause

\* err is cause wrapped once, with some label.
LabelledSomehow(err, cause) == Len(err) = Len(cause) + 1 /\ Tail(err) = cause

\* C7 as stated: a failure of any of the three stages of UnmarshalYAML comes
\* back wrapped with a label, and a failed stage stops the later ones.
C7_EveryStageErrorIsLabelled ==
    dec.done =>
        LET o == StageOutcomes
        IN  IF o.yaml # NilError
            THEN LabelledSomehow(dec.err, o.yaml) /\ dec.stages = <<StageYAML>>
            ELSE IF o.json # NilError
            THEN LabelledSomehow(dec.err, o.json) /\ dec.stages = <<StageYAML, StageJSON>>
            ELSE IF o.final # NilError
            THEN LabelledSomehow(dec.err, o.final)
            ELSE dec.err = NilError

\* C7, amended: a failure of the YAML parse comes back wrapped with "failed
\* to unmarshal YAML" and one of the JSON re-encoding with "failed to marshal
\* JSON", each stopping the later stages; a failure of the final
\* UnmarshalJSON comes back as UnmarshalJSON returned it, with no label put
\* on it.
C7_OnlyTheFirstTwoStagesAreLabelled ==
    dec.done =>
        LET o == StageOutcomes
        IN  IF o.yaml # NilError
            THEN /\ Labelled(dec.err, "failed to unmarshal YAML", o.yaml)
                 /\ dec.stages = <<StageYAML>>
            ELSE IF o.json # NilError
            THEN /\ Labelled(dec.err, "failed to marshal JSON", o.json)
                 /\ dec.stages = <<StageYAML, StageJSON>>
            ELSE /\ dec.err = o.final
                 /\ dec.stages = <<StageYAML, StageJSON, StageFinal>>

\* UnmarshalYAML failed in its final stage, on a text that parsed as YAML and
\* was re-encoded as JSON, and returned UnmarshalJSON's own error.
C7_Witness ==
    /\ dec.done
    /\ dec.stages = <<StageYAML, StageJSON, StageFinal>>
    /\ dec.err = <<"invalid value for kzg proof">>

\* The last UnmarshalYAML call decoded the bytes the last MarshalYAML call
\* produced, and the JSON serializer raised no error of its own.
RoundTripped ==
    /\ enc.done
    /\ enc.err = NilError
    /\ dec.done
    /\ dec.input = enc.out
    /\ ~dec.jsonFails

C9_OutputIsFlowTextWithQuotesReplaced ==
    enc.done =>
        LET flow == YAMLMarshalFlow(
                        BlockContentsYAML(contents.Block, contents.KZGProofs, contents.Blobs),
                        enc.fails)
        IN  IF flow.err # NilError
            THEN enc.err = flow.err /\ enc.out = <<>>
            ELSE /\ enc.err = NilError
                 /\ Len(enc.out) = Len(flow.out)
                 /\ \A i \in 1..Len(flow.out) :
                       enc.out[i] = IF flow.out[i] = DQ THEN SQ ELSE flow.out[i]
                 /\ \A i \in 1..Len(enc.out) : enc.out[i] # DQ

\* MarshalYAML succeeded on a BlockContents whose text holds several quoted
\* strings.
C9_Witness ==
    /\ enc.done
    /\ enc.err = NilError
    /\ Len(contents.KZGProofs) + Len(contents.Blobs) >= 2
    /\ Cardinality({ i \in 1..Len(enc.out) : enc.out[i] = SQ }) >= 4

============================================================================
